---- MODULE Spec2Model ----
(***************************************************************************)
(* State-machine model of the bingo / prediction server (app.ts): the      *)
(* in-memory gameState and finalLineup, the two files the server writes,   *)
(* the socket.io connections, and one action per socket event handler.     *)
(***************************************************************************)
EXTENDS Integers, Sequences, FiniteSets, TLC

\* ------------------------------------------------------------------ bounds
\* number of client events handled in one behaviour
MaxEvents == 3
\* number of sockets that may be connected at the same time
NumConns == 2

\* ------------------------------------------------------- program constants
GridSize == 5
FreeSpaceIndex == 12
TermsPerBoard == 24
PredictionLength == 12

\* --------------------------------------------------------- input alphabets
Conns == 1..NumConns

\* members.txt: the roster
members == <<"A", "B">>
Members == {members[i] : i \in DOMAIN members}
\* a name that is not in the roster
Stranger == "Z"
Names == Members \cup {Stranger}
\* a name that is not in the roster but is a property every JavaScript object
\* inherits: gameState is a plain object ({}), so gameState["constructor"] is
\* the Object function, which is truthy and has no prediction property
InheritedName == "constructor"
\* getPublicState() called without an argument: requestingUser is undefined
Undefined == "undefined"

\* groups.txt
groups == <<"g1", "g2", "g3", "g4", "g5", "g6", "g7", "g8", "g9", "g10",
            "g11", "g12", "g13", "g14">>

\* JavaScript null, as a value comparable with the string lists a prediction
\* holds and different from every list a handler can store (those have 12
\* entries) and from the empty list
Null == <<"null">>

\* bingo_terms.txt, and the 25-cell board built from it (FREE SPACE is the
\* 13th entry, i.e. index 12 counting from 0)
terms == <<"t1", "t2", "t3", "t4", "t5", "t6", "t7", "t8", "t9", "t10",
           "t11", "t12", "t13", "t14", "t15", "t16", "t17", "t18", "t19",
           "t20", "t21", "t22", "t23", "t24", "t25">>
boardTerms == SubSeq(terms, 1, FreeSpaceIndex) \o <<"FREE SPACE">>
                 \o SubSeq(terms, FreeSpaceIndex + 1, TermsPerBoard)

\* payloads of submitPrediction: two different 12-item lists, one too short,
\* one too long
PredFirst == SubSeq(groups, 1, PredictionLength)
PredOther == SubSeq(groups, 3, PredictionLength + 2)
PredShort == SubSeq(groups, 1, PredictionLength - 1)
PredLong == SubSeq(groups, 1, PredictionLength + 1)
\* twelve times the same group
PredRepeated == [i \in 1..PredictionLength |-> groups[1]]
PredictionPayloads == {PredFirst, PredOther, PredRepeated, PredShort, PredLong}

\* payloads of submitFinalLineup
LineupFirst == <<"g1", "g2", "g13">>
LineupOther == <<"g14">>
\* entries with surrounding blanks and with a line break inside
LineupPadded == <<" g1 ", "g2\ng3">>
\* a single entry of blanks
LineupBlank == <<"  ">>
LineupPayloads == {<<>>, LineupFirst, LineupOther, LineupPadded, LineupBlank}

\* payloads of toggleCell: cells that complete row 2 and column 2, the free
\* space, and two indices outside the board
ToggleIndices == {14, 22, FreeSpaceIndex, 25, -1}

\* contents of gamestate.json found at startup: no file (a first start), and
\* the file left by a run in which only A was in the roster, selected the
\* free space and six other cells, and locked a prediction
SavedBoardState(selectedIndices, prediction) ==
    [board |-> boardTerms, selectedIndices |-> selectedIndices,
     prediction |-> prediction]
NoSnapshot == [m \in {} |-> SavedBoardState(<<>>, Null)]
SnapshotOfA ==
    [m \in {"A"} |-> SavedBoardState(<<12, 10, 11, 13, 2, 7, 17>>, PredFirst)]
SavedSnapshots == {NoSnapshot, SnapshotOfA}

\* Math.random() in the Fisher-Yates loop: picks[i] is the j drawn at step i
\* (0 <= j <= i).  Always i (no swap), always 0, and i halved.
PickSelf == [i \in 1..(Len(terms) - 1) |-> i]
PickZero == [i \in 1..(Len(terms) - 1) |-> 0]
PickHalf == [i \in 1..(Len(terms) - 1) |-> i \div 2]
RandomPicks == {PickSelf, PickZero, PickHalf}
\* the draws of one startup, per member
StartupPicks ==
    {[m \in Members |-> PickSelf],
     [m \in Members |-> IF m = "A" THEN PickZero ELSE PickHalf]}

\* gameState, finalLineup: the server's memory.  inheritedPrediction: the
\* prediction property of the object found under InheritedName.
\* dataFile, lineupFile: gamestate.json and final_lineup.txt.
\* connected, claimed: the open sockets and the name each gave in join.
\* effects, lastEvent, prevEvent, prevGameState, lastSaveOk, nEvents: history
\* (the I/O of the last handler, the last two events, gameState before the
\* last event, the outcome of the last saveGameState, the events so far).
\* (memberName, payload) of the submitPrediction and toggleCell events: every
\* payload for the roster members, one accepted payload for the other names
PredictionInputs ==
    (Members \X PredictionPayloads)
        \cup ({Stranger, InheritedName} \X {PredFirst})
ToggleInputs == (Members \X ToggleIndices) \cup ({Stranger} \X {14})

VARIABLES gameState, finalLineup, inheritedPrediction, dataFile, lineupFile,
          connected, claimed, effects, lastEvent, prevEvent, prevGameState,
          lastSaveOk, nEvents

vars == <<gameState, finalLineup, inheritedPrediction, dataFile, lineupFile,
          connected, claimed, effects, lastEvent, prevEvent, prevGameState,
          lastSaveOk, nEvents>>

\* ------------------------------------------------------------ pure helpers
Range(s) == {s[i] : i \in DOMAIN s}

\* Array.prototype.indexOf, 1-based; 0 when absent (JavaScript: -1)
indexOf(s, x) ==
    IF \E i \in DOMAIN s : s[i] = x
    THEN CHOOSE i \in DOMAIN s : s[i] = x /\ \A j \in 1..(i - 1) : s[j] # x
    ELSE 0

\* Array.prototype.splice(i, 1) at the 1-based position i
splice(s, i) == SubSeq(s, 1, i - 1) \o SubSeq(s, i + 1, Len(s))

\* !!x for the values a prediction can take
Truthy(p) == p # Null

\* variant: the second diagonal walked with i * 4 instead of (i + 1) * 4
calculateBingoCount_shiftedDiagonal(selected) ==
    LET effectiveSelected == Range(selected) \cup {FreeSpaceIndex}
        rows == {r \in 0..(GridSize - 1) :
                    \A c \in 0..(GridSize - 1) : (r * 5 + c) \in effectiveSelected}
        cols == {c \in 0..(GridSize - 1) :
                    \A r \in 0..(GridSize - 1) : (r * 5 + c) \in effectiveSelected}
        d1 == \A i \in 0..(GridSize - 1) : (i * 6) \in effectiveSelected
        d2 == \A i \in 0..(GridSize - 1) : (i * 4) \in effectiveSelected
    IN  Cardinality(rows) + Cardinality(cols)
          + (IF d1 THEN 1 ELSE 0) + (IF d2 THEN 1 ELSE 0)

\* variant: the free space is not added to the selection
calculateBingoCount_noFreeSpace(selected) ==
    LET effectiveSelected == Range(selected)
        rows == {r \in 0..(GridSize - 1) :
                    \A c \in 0..(GridSize - 1) : (r * 5 + c) \in effectiveSelected}
        cols == {c \in 0..(GridSize - 1) :
                    \A r \in 0..(GridSize - 1) : (r * 5 + c) \in effectiveSelected}
        d1 == \A i \in 0..(GridSize - 1) : (i * 6) \in effectiveSelected
        d2 == \A i \in 0..(GridSize - 1) : ((i + 1) * 4) \in effectiveSelected
    IN  Cardinality(rows) + Cardinality(cols)
          + (IF d1 THEN 1 ELSE 0) + (IF d2 THEN 1 ELSE 0)

calculateBingoCount(selected) ==
    LET effectiveSelected == Range(selected) \cup {FreeSpaceIndex}
        rows == {r \in 0..(GridSize - 1) :
                    \A c \in 0..(GridSize - 1) : (r * 5 + c) \in effectiveSelected}
        cols == {c \in 0..(GridSize - 1) :
                    \A r \in 0..(GridSize - 1) : (r * 5 + c) \in effectiveSelected}
        d1 == \A i \in 0..(GridSize - 1) : (i * 6) \in effectiveSelected
        d2 == \A i \in 0..(GridSize - 1) : ((i + 1) * 4) \in effectiveSelected
    IN  Cardinality(rows) + Cardinality(cols)
          + (IF d1 THEN 1 ELSE 0) + (IF d2 THEN 1 ELSE 0)

\* variant: the number of distinct predicted groups found in the lineup
Score_distinctItems(prediction, lineup) ==
    IF Truthy(prediction)
    THEN Cardinality(Range(prediction) \cap Range(lineup))
    ELSE 0

\* state.prediction.filter(p => finalLineup.includes(p)).length
Score(prediction, lineup) ==
    IF Truthy(prediction)
    THEN Cardinality({i \in DOMAIN prediction : prediction[i] \in Range(lineup)})
    ELSE 0

\* variant: the "show my own" branch without the member === requestingUser test
predictionData_leaky(state, member, requestingUser, lineup) ==
    IF Len(lineup) > 0
    THEN [hasPredicted |-> Truthy(state.prediction),
          prediction |-> state.prediction,
          score |-> Score(state.prediction, lineup)]
    ELSE IF Truthy(state.prediction)
    THEN [hasPredicted |-> TRUE, prediction |-> state.prediction]
    ELSE [hasPredicted |-> Truthy(state.prediction)]

\* variant: the game-over branch tests requestingUser as well, so other
\* members stay masked after the reveal
predictionData_maskedAfterReveal(state, member, requestingUser, lineup) ==
    IF Len(lineup) > 0 /\ member = requestingUser
    THEN [hasPredicted |-> Truthy(state.prediction),
          prediction |-> state.prediction,
          score |-> Score(state.prediction, lineup)]
    ELSE IF member = requestingUser /\ Truthy(state.prediction)
    THEN [hasPredicted |-> TRUE, prediction |-> state.prediction]
    ELSE [hasPredicted |-> Truthy(state.prediction)]

predictionData(state, member, requestingUser, lineup) ==
    IF Len(lineup) > 0
    THEN [hasPredicted |-> Truthy(state.prediction),
          prediction |-> state.prediction,
          score |-> Score(state.prediction, lineup)]
    ELSE IF member = requestingUser /\ Truthy(state.prediction)
    THEN [hasPredicted |-> TRUE, prediction |-> state.prediction]
    ELSE [hasPredicted |-> Truthy(state.prediction)]

getPublicState(gs, lineup, requestingUser) ==
    [member \in DOMAIN gs |->
        [board |-> gs[member].board,
         selectedIndices |-> gs[member].selectedIndices,
         bingoCount |-> calculateBingoCount(gs[member].selectedIndices),
         prediction |-> predictionData(gs[member], member, requestingUser, lineup)]]

\* ----------------------------------------------------------------- effects
\* The I/O a handler performs, in program order.
Emit(to, event, data) == [kind |-> "emit", to |-> to, event |-> event, data |-> data]
Write(file, ok) == [kind |-> "write", file |-> file, ok |-> ok]

initMessage(gs, lineup, requestingUser) ==
    [members |-> members, groups |-> groups,
     gameState |-> getPublicState(gs, lineup, requestingUser),
     finalLineup |-> lineup]

\* fs.writeFileSync(DATA_FILE, ...) inside try/catch: the file holds the new
\* state when the write succeeds and keeps its content when it throws
saveGameState(gs, ok) == IF ok THEN gs ELSE dataFile

\* ---------------------------------------------------------------- startup
\* String.prototype.trim on the lines the model can hold
trim(line) ==
    CASE line = " g1 " -> "g1"
      [] line = "  " -> ""
      [] OTHER -> line

\* loadFile: the lines of the file, trimmed, without the empty ones; [] when
\* the file cannot be read
loadFile(lines) ==
    SelectSeq([k \in DOMAIN lines |-> trim(lines[k])], LAMBDA line : line # "")

\* [a[i], a[j]] = [a[j], a[i]] on 1-based positions
swap(a, i, j) == [a EXCEPT ![i] = a[j], ![j] = a[i]]

\* the Fisher-Yates loop: for (i = length - 1; i > 0; i--) swap i and picks[i]
RECURSIVE fisherYates(_, _, _)
fisherYates(currentTerms, i, picks) ==
    IF i < 1
    THEN currentTerms
    ELSE fisherYates(swap(currentTerms, i + 1, picks[i] + 1), i - 1, picks)

\* variant: FREE SPACE pushed at the end instead of spliced in at index 12
generateBoardTerms_freeAtEnd(pool, picks) ==
    LET drawn == IF Len(pool) >= TermsPerBoard
                 THEN SubSeq(fisherYates(pool, Len(pool) - 1, picks), 1, TermsPerBoard)
                 ELSE pool
    IN  Append(drawn, "FREE SPACE")

\* the board of a new member: 24 shuffled terms (or the whole pool when it is
\* smaller) with FREE SPACE inserted at index 12 (or appended)
generateBoardTerms(pool, picks) ==
    LET drawn == IF Len(pool) >= TermsPerBoard
                 THEN SubSeq(fisherYates(pool, Len(pool) - 1, picks), 1, TermsPerBoard)
                 ELSE pool
    IN  IF Len(drawn) >= FreeSpaceIndex
        THEN SubSeq(drawn, 1, FreeSpaceIndex) \o <<"FREE SPACE">>
                \o SubSeq(drawn, FreeSpaceIndex + 1, Len(drawn))
        ELSE Append(drawn, "FREE SPACE")

\* variant: every member gets a new board, saved or not
initializeMember_alwaysNew(loadedState, member, pool, picks) ==
    [board |-> generateBoardTerms(pool, picks),
     selectedIndices |-> <<>>,
     prediction |-> Null]

\* members.forEach: reuse the saved BoardState (a falsy prediction becomes
\* null) or build a new one
initializeMember(loadedState, member, pool, picks) ==
    IF member \in DOMAIN loadedState
    THEN [loadedState[member] EXCEPT
             !.prediction = IF Truthy(@) THEN @ ELSE Null]
    ELSE [board |-> generateBoardTerms(pool, picks),
          selectedIndices |-> <<>>,
          prediction |-> Null]

\* gameState after the startup loop, given the parsed gamestate.json
startupState(loadedState, picks) ==
    [m \in Members |-> initializeMember(loadedState, m, terms, picks[m])]

\* the startups the model begins with: a first start, and a start on A's file
Startups ==
    {[loaded |-> NoSnapshot, picks |-> [m \in Members |-> PickSelf]],
     [loaded |-> SnapshotOfA,
      picks |-> [m \in Members |-> IF m = "A" THEN PickZero ELSE PickHalf]]}

\* ------------------------------------------------------------------- Init
Init ==
    \E start \in Startups, ok \in BOOLEAN :
        /\ gameState = startupState(start.loaded, start.picks)
        /\ dataFile = IF ok THEN gameState ELSE start.loaded
        /\ lastSaveOk = ok
        /\ lineupFile = <<>>
        /\ finalLineup = loadFile(lineupFile)
        /\ inheritedPrediction = Null
        /\ connected = {}
        /\ claimed = [c \in Conns |-> Undefined]
        /\ effects = <<Write("gamestate.json", ok)>>
        /\ lastEvent = [type |-> "startup"]
        /\ prevEvent = [type |-> "none"]
        /\ prevGameState = gameState
        /\ nEvents = 0

\* ---------------------------------------------------------------- actions
\* history kept for every handled event; the events that mutate the store
\* are recorded with the name their sender had claimed (sender), the others
\* with the socket (conn)
Handled(event) ==
    /\ lastEvent' = event
    /\ prevEvent' = lastEvent
    /\ prevGameState' = gameState
    /\ nEvents' = nEvents + 1

\* io.on('connection'): registers the handlers and emits the anonymous init
\* (a new socket is numbered with the lowest number not in use)
Connect(c) ==
    /\ c \notin connected
    /\ \A d \in Conns \ connected : c <= d
    /\ nEvents < MaxEvents
    /\ connected' = connected \cup {c}
    /\ claimed' = [claimed EXCEPT ![c] = Undefined]
    /\ effects' = <<Emit({c}, "init", initMessage(gameState, finalLineup, Undefined))>>
    /\ Handled([type |-> "connection", conn |-> c])
    /\ UNCHANGED <<gameState, finalLineup, inheritedPrediction, dataFile,
                   lineupFile, lastSaveOk>>

\* variant: the init answer sent with io.emit instead of socket.emit
Join_broadcast(c, name) ==
    /\ c \in connected
    /\ nEvents < MaxEvents
    /\ claimed' = [claimed EXCEPT ![c] = name]
    /\ effects' = <<Emit(connected, "init", initMessage(gameState, finalLineup, name))>>
    /\ Handled([type |-> "join", conn |-> c, name |-> name])
    /\ UNCHANGED <<gameState, finalLineup, inheritedPrediction, dataFile,
                   lineupFile, connected, lastSaveOk>>

Join(c, name) ==
    /\ c \in connected
    /\ nEvents < MaxEvents
    /\ claimed' = [claimed EXCEPT ![c] = name]
    /\ effects' = <<Emit({c}, "init", initMessage(gameState, finalLineup, name))>>
    /\ Handled([type |-> "join", conn |-> c, name |-> name])
    /\ UNCHANGED <<gameState, finalLineup, inheritedPrediction, dataFile,
                   lineupFile, connected, lastSaveOk>>

Disconnect(c) ==
    /\ c \in connected
    /\ nEvents < MaxEvents
    /\ connected' = connected \ {c}
    /\ claimed' = [claimed EXCEPT ![c] = Undefined]
    /\ effects' = <<>>
    /\ Handled([type |-> "disconnect", conn |-> c])
    /\ UNCHANGED <<gameState, finalLineup, inheritedPrediction, dataFile,
                   lineupFile, lastSaveOk>>

\* what gameState[name] evaluates to: the member's BoardState, or the
\* inherited object with its prediction property; absent for other names
properties(gs, inherited) ==
    [name \in DOMAIN gs \cup {InheritedName} |->
        IF name \in DOMAIN gs THEN gs[name] ELSE [prediction |-> inherited]]

\* variant: validation without the "not already set" test
acceptsPrediction_noLock(gs, memberName, prediction) ==
    /\ memberName \in DOMAIN gs
    /\ Len(prediction) = PredictionLength

\* variant: the length test written as "at most 12"
acceptsPrediction_atMost(gs, memberName, prediction) ==
    /\ memberName \in DOMAIN gs
    /\ ~Truthy(gs[memberName].prediction)
    /\ Len(prediction) <= PredictionLength

\* submitPrediction's validation: gameState[memberName] exists, has no
\* prediction yet, and the payload has 12 entries
acceptsPrediction(gs, memberName, prediction) ==
    /\ memberName \in DOMAIN gs
    /\ ~Truthy(gs[memberName].prediction)
    /\ Len(prediction) = PredictionLength

SubmitPrediction(c, memberName, prediction, ok) ==
    /\ c \in connected
    /\ nEvents < MaxEvents
    /\ IF acceptsPrediction(properties(gameState, inheritedPrediction),
                            memberName, prediction)
       THEN /\ IF memberName \in DOMAIN gameState
               THEN /\ gameState' = [gameState EXCEPT
                                        ![memberName].prediction = prediction]
                    /\ UNCHANGED inheritedPrediction
               ELSE /\ inheritedPrediction' = prediction
                    /\ UNCHANGED gameState
            /\ dataFile' = saveGameState(gameState', ok)
            /\ lastSaveOk' = ok
            /\ effects' = <<Write("gamestate.json", ok),
                            Emit(connected, "predictionUpdate",
                                 [memberName |-> memberName, hasPredicted |-> TRUE])>>
       ELSE /\ UNCHANGED <<gameState, inheritedPrediction, dataFile, lastSaveOk>>
            /\ effects' = <<>>
    /\ Handled([type |-> "submitPrediction", sender |-> claimed[c],
                memberName |-> memberName, prediction |-> prediction])
    /\ UNCHANGED <<finalLineup, lineupFile, connected, claimed>>

\* submitFinalLineup's validation: data.lineup && data.lineup.length > 0
acceptsLineup(lineup) == Len(lineup) > 0

\* the lines one entry contributes to a text joined with '\n'
linesOf(entry) ==
    CASE entry = "g2\ng3" -> <<"g2", "g3">>
      [] OTHER -> <<entry>>

\* finalLineup.join('\n') written to final_lineup.txt, as the lines that
\* content.split('\n') finds in it
RECURSIVE lineupText(_)
lineupText(lineup) ==
    IF lineup = <<>> THEN <<>>
    ELSE linesOf(Head(lineup)) \o lineupText(Tail(lineup))

SubmitFinalLineup(c, lineup, ok) ==
    /\ c \in connected
    /\ nEvents < MaxEvents
    /\ IF acceptsLineup(lineup)
       THEN /\ finalLineup' = lineup
            /\ lineupFile' = IF ok THEN lineupText(finalLineup') ELSE lineupFile
            /\ effects' = <<Write("final_lineup.txt", ok),
                            Emit(connected, "gameOver",
                                 [finalLineup |-> finalLineup',
                                  gameState |-> getPublicState(gameState, finalLineup',
                                                               Undefined)])>>
       ELSE /\ UNCHANGED <<finalLineup, lineupFile>>
            /\ effects' = <<>>
    /\ Handled([type |-> "submitFinalLineup", sender |-> claimed[c],
                lineup |-> lineup])
    /\ UNCHANGED <<gameState, inheritedPrediction, dataFile, connected, claimed,
                   lastSaveOk>>

\* variant: the index is pushed whether or not it is already selected
toggled_alwaysPush(selectedIndices, index) == Append(selectedIndices, index)

\* the selection after toggleCell's indexOf / splice / push
toggled(selectedIndices, index) ==
    LET selectedIdx == indexOf(selectedIndices, index)
    IN  IF selectedIdx > 0
        THEN splice(selectedIndices, selectedIdx)
        ELSE Append(selectedIndices, index)

\* variant: announce only the first bingo (count leaving zero)
isNewBingo_fromZero(oldBingoCount, newBingoCount) ==
    oldBingoCount = 0 /\ newBingoCount > 0

\* variant: announce whenever the count changes
isNewBingo_onChange(oldBingoCount, newBingoCount) ==
    newBingoCount # oldBingoCount

\* "Check for NEW bingo"
isNewBingo(oldBingoCount, newBingoCount) == newBingoCount > oldBingoCount

\* variant: every member's BoardState refers to one selectedIndices array
setSelectedIndices_shared(gs, memberName, selectedIndices) ==
    [m \in DOMAIN gs |-> [gs[m] EXCEPT !.selectedIndices = selectedIndices]]

\* memberState.selectedIndices.splice / push: the array of the BoardState
\* that gameState[memberName] refers to is changed in place
setSelectedIndices(gs, memberName, selectedIndices) ==
    [gs EXCEPT ![memberName].selectedIndices = selectedIndices]

\* (memberName ranges over Names: for InheritedName the handler throws a
\* TypeError on selectedIndices.indexOf before it emits or stores anything)
ToggleCell(c, memberName, index, ok) ==
    /\ c \in connected
    /\ nEvents < MaxEvents
    /\ IF memberName \in DOMAIN gameState
       THEN LET memberState == gameState[memberName]
                oldBingoCount == calculateBingoCount(memberState.selectedIndices)
                newSelected == toggled(memberState.selectedIndices, index)
                newBingoCount == calculateBingoCount(newSelected)
            IN  /\ gameState' = setSelectedIndices(gameState, memberName,
                                                   newSelected)
                /\ effects' =
                      <<Emit(connected, "updateState",
                             [memberName |-> memberName,
                              selectedIndices |-> newSelected,
                              bingoCount |-> newBingoCount])>>
                      \o (IF isNewBingo(oldBingoCount, newBingoCount)
                          THEN <<Emit(connected, "bingoAnnouncement",
                                      [memberName |-> memberName,
                                       count |-> newBingoCount])>>
                          ELSE <<>>)
                      \o <<Write("gamestate.json", ok)>>
                /\ dataFile' = saveGameState(gameState', ok)
                /\ lastSaveOk' = ok
       ELSE /\ UNCHANGED <<gameState, dataFile, lastSaveOk>>
            /\ effects' = <<>>
    /\ Handled([type |-> "toggleCell", sender |-> claimed[c],
                memberName |-> memberName, index |-> index])
    /\ UNCHANGED <<finalLineup, inheritedPrediction, lineupFile, connected, claimed>>

\* the process is stopped and started again with the same roster and the
\* files it left: the module-level initialization runs on gamestate.json and
\* final_lineup.txt, and every socket is gone
Restart(picks, ok) ==
    /\ nEvents < MaxEvents
    /\ gameState' = startupState(dataFile, picks)
    /\ dataFile' = saveGameState(gameState', ok)
    /\ lastSaveOk' = ok
    /\ finalLineup' = loadFile(lineupFile)
    /\ inheritedPrediction' = Null
    /\ connected' = {}
    /\ claimed' = [c \in Conns |-> Undefined]
    /\ effects' = <<Write("gamestate.json", ok)>>
    /\ Handled([type |-> "restart"])
    /\ UNCHANGED lineupFile

Next ==
    \/ \E c \in Conns : Connect(c)
    \/ \E c \in Conns, name \in Names : Join(c, name)
    \/ \E c \in Conns : Disconnect(c)
    \/ \E c \in Conns, input \in PredictionInputs, ok \in BOOLEAN :
          SubmitPrediction(c, input[1], input[2], ok)
    \/ \E c \in Conns, l \in LineupPayloads, ok \in BOOLEAN :
          SubmitFinalLineup(c, l, ok)
    \/ \E c \in Conns, input \in ToggleInputs, ok \in BOOLEAN :
          ToggleCell(c, input[1], input[2], ok)
    \/ \E picks \in StartupPicks, ok \in BOOLEAN : Restart(picks, ok)

Spec == Init /\ [][Next]_vars

\* ------------------------------------------------------- claim vocabulary
\* positions of the messages the last handler emitted
Emits == {i \in DOMAIN effects : effects[i].kind = "emit"}
EmitsOf(event) == {i \in Emits : effects[i].event = event}

\* members whose prediction list (not just the hasPredicted flag) is carried
\* by an emitted message
predictionsIn(e) ==
    IF "gameState" \in DOMAIN e.data
    THEN {m \in DOMAIN e.data.gameState :
             "prediction" \in DOMAIN e.data.gameState[m].prediction}
    ELSE IF "prediction" \in DOMAIN e.data THEN Members ELSE {}

\* the state in which member m had locked the prediction p instead of its own
withPrediction(gs, m, p) ==
    [gs EXCEPT ![m].prediction = IF Truthy(@) THEN p ELSE @]

\* C1: before the reveal (finalLineup empty) no emitted message carries the
\* prediction list of a member other than the name its recipient claimed in
\* join, and an init sent to a connection is the same message whatever the
\* other members' locked predictions contain.
C1_MaskedBeforeReveal ==
    Len(finalLineup) = 0 =>
        \A i \in Emits : \A c \in effects[i].to : \A m \in Members \ {claimed[c]} :
            /\ m \notin predictionsIn(effects[i])
            /\ effects[i].event = "init" =>
                  \A p \in {PredFirst, PredOther} :
                      effects[i].data =
                          initMessage(withPrediction(gameState, m, p),
                                      finalLineup, claimed[c])

\* a connection that joined as B receives its init while A has a locked
\* prediction and nothing is revealed
C1_Witness ==
    /\ Len(finalLineup) = 0
    /\ lastEvent.type = "join"
    /\ lastEvent.name = "B"
    /\ Truthy(gameState["A"].prediction)
    /\ EmitsOf("init") # {}

\* C2: no event a client sends changes a stored prediction, and a
\* submitPrediction for a member that already has one changes no state and
\* emits nothing.
C2_PredictionImmutable ==
    [][\A m \in Members :
          (Truthy(gameState[m].prediction) /\ lastEvent'.type # "restart") =>
              /\ gameState'[m].prediction = gameState[m].prediction
              /\ (lastEvent'.type = "submitPrediction" /\ lastEvent'.memberName = m)
                    => /\ gameState' = gameState
                       /\ dataFile' = dataFile
                       /\ finalLineup' = finalLineup
                       /\ lineupFile' = lineupFile
                       /\ effects' = <<>>]_vars

\* a second, different 12-item payload was submitted for a member whose
\* prediction is locked
C2_Witness ==
    /\ lastEvent.type = "submitPrediction"
    /\ lastEvent.memberName \in Members
    /\ Len(lastEvent.prediction) = PredictionLength
    /\ Truthy(gameState[lastEvent.memberName].prediction)
    /\ gameState[lastEvent.memberName].prediction # lastEvent.prediction

\* C3 (as claimed): once finalLineup is non-empty no event changes it.
C3_LineupImmutable ==
    [][Len(finalLineup) > 0 => finalLineup' = finalLineup]_vars

\* C4 (as claimed): after the reveal a 12-item submitPrediction for a member
\* without a prediction stores nothing and emits no predictionUpdate.
C4_RevealLocksPredictions ==
    [][(/\ Len(finalLineup) > 0
        /\ lastEvent'.type = "submitPrediction"
        /\ lastEvent'.memberName \in Members
        /\ Len(lastEvent'.prediction) = PredictionLength
        /\ ~Truthy(gameState[lastEvent'.memberName].prediction))
       => /\ ~Truthy(gameState'[lastEvent'.memberName].prediction)
          /\ \A i \in DOMAIN effects' :
                effects'[i].kind = "emit" => effects'[i].event # "predictionUpdate"]_vars

\* a view that shows every member's stored prediction and a numeric score
Unmasked(view) ==
    \A m \in Members :
        /\ DOMAIN view[m].prediction = {"hasPredicted", "prediction", "score"}
        /\ view[m].prediction.prediction = gameState[m].prediction
        /\ view[m].prediction.hasPredicted = Truthy(gameState[m].prediction)
        /\ view[m].prediction.score \in Nat

\* C5: an accepted submitFinalLineup emits gameOver to every connected socket,
\* and gameOver and every init sent while finalLineup is non-empty show every
\* member's stored prediction (or none) with a numeric score.
C5_UnmaskedAfterReveal ==
    /\ (lastEvent.type = "submitFinalLineup" /\ Len(lastEvent.lineup) > 0)
          => \E i \in EmitsOf("gameOver") :
                /\ effects[i].to = connected
                /\ effects[i].data.finalLineup = finalLineup
    /\ \A i \in EmitsOf("gameOver") : Unmasked(effects[i].data.gameState)
    /\ Len(finalLineup) > 0
          => \A i \in EmitsOf("init") : Unmasked(effects[i].data.gameState)

\* after the reveal a connection joins under a name other than A and its init
\* shows A's locked prediction
C5_Witness ==
    /\ Len(finalLineup) > 0
    /\ lastEvent.type = "join"
    /\ lastEvent.name # "A"
    /\ Truthy(gameState["A"].prediction)
    /\ \E i \in EmitsOf("init") :
          effects[i].data.gameState["A"].prediction.prediction = PredFirst

\* C6 (as claimed): selectedIndices has no duplicates and stays within 0..24.
C6_SelectionInRange ==
    \A m \in Members :
        LET sel == gameState[m].selectedIndices
        IN  /\ \A i, j \in DOMAIN sel : sel[i] = sel[j] => i = j
            /\ Range(sel) \subseteq 0..(GridSize * GridSize - 1)

\* C7 (as claimed): a toggleCell whose index is outside the member's board
\* changes nothing and emits nothing.
C7_OutOfRangeIsNoOp ==
    [][(/\ lastEvent'.type = "toggleCell"
        /\ lastEvent'.memberName \in Members
        /\ \/ lastEvent'.index < 0
           \/ lastEvent'.index >= Len(gameState[lastEvent'.memberName].board))
       => /\ gameState' = gameState
          /\ \A i \in DOMAIN effects' : effects'[i].kind # "emit"]_vars

\* C8 (as claimed): when the handler's writes succeed, every broadcast of a
\* mutation is emitted after the durable write of that mutation.
C8_WriteBeforeBroadcast ==
    \A i \in Emits :
        (/\ effects[i].event \in {"updateState", "bingoAnnouncement",
                                  "predictionUpdate", "gameOver"}
         /\ \A k \in DOMAIN effects : effects[k].kind = "write" => effects[k].ok)
        => \E j \in 1..(i - 1) : effects[j].kind = "write"

\* C9 (as claimed): a toggleCell or submitPrediction sent by a connection that
\* joined as member A leaves every other member's BoardState unchanged.
C9_ReadOnlyForOthers ==
    [][(/\ lastEvent'.type \in {"toggleCell", "submitPrediction"}
        /\ lastEvent'.sender \in Members)
       => \A b \in Members \ {lastEvent'.sender} :
             gameState'[b] = gameState[b]]_vars

\* C10: toggleCell emits bingoAnnouncement exactly when the member's
\* completed-line count after the toggle exceeds the count before it, to every
\* connected socket and carrying the new count.
C10_AnnounceOnIncrease ==
    [][lastEvent'.type = "toggleCell" =>
          LET m == lastEvent'.memberName
              anns == {i \in DOMAIN effects' :
                          /\ effects'[i].kind = "emit"
                          /\ effects'[i].event = "bingoAnnouncement"}
          IN  IF m \in Members
              THEN LET old == calculateBingoCount(gameState[m].selectedIndices)
                       new == calculateBingoCount(gameState'[m].selectedIndices)
                   IN  /\ (anns # {}) <=> (new > old)
                       /\ Cardinality(anns) <= 1
                       /\ \A i \in anns :
                             /\ effects'[i].data = [memberName |-> m, count |-> new]
                             /\ effects'[i].to = connected
              ELSE anns = {}]_vars

\* a toggle selected a cell and raised the count from a non-zero value, and
\* the announcement went out
C10_Witness ==
    /\ lastEvent.type = "toggleCell"
    /\ lastEvent.memberName \in Members
    /\ LET sel == gameState[lastEvent.memberName].selectedIndices
           before == SelectSeq(sel, LAMBDA x : x # lastEvent.index)
       IN  /\ lastEvent.index \in Range(sel)
           /\ calculateBingoCount(before) > 0
           /\ \E i \in EmitsOf("bingoAnnouncement") :
                 effects[i].data.count > calculateBingoCount(before)

\* the updateState messages among the effects of the step
UpdatesOf(eff) ==
    {i \in DOMAIN eff : eff[i].kind = "emit" /\ eff[i].event = "updateState"}

\* C11: two consecutive toggleCell events for the same member and the same
\* index in 0..24 leave the member's selection set as it was before the first,
\* and the second updateState carries the bingo count from before the first;
\* selecting / deselecting any index twice on a selection a toggle has
\* produced gives back the same set.
C11_ToggleTwice ==
    [][/\ (/\ lastEvent.type = "toggleCell"
           /\ lastEvent'.type = "toggleCell"
           /\ lastEvent'.memberName = lastEvent.memberName
           /\ lastEvent'.index = lastEvent.index
           /\ lastEvent.memberName \in Members
           /\ lastEvent.index \in 0..(GridSize * GridSize - 1))
          => LET m == lastEvent.memberName
                 before == prevGameState[m].selectedIndices
             IN  /\ Range(gameState'[m].selectedIndices) = Range(before)
                 /\ Len(gameState'[m].selectedIndices) = Len(before)
                 /\ UpdatesOf(effects') # {}
                 /\ \A i \in UpdatesOf(effects') :
                       /\ effects'[i].data.memberName = m
                       /\ effects'[i].data.bingoCount = calculateBingoCount(before)
                       /\ Range(effects'[i].data.selectedIndices) = Range(before)
       /\ (lastEvent'.type = "toggleCell" /\ lastEvent'.memberName \in Members)
          => \A sel \in {gameState'[lastEvent'.memberName].selectedIndices} :
             \A i \in 0..(GridSize * GridSize - 1) :
             \A once \in {toggled(sel, i)} :
                Range(toggled(once, i)) = Range(sel)]_vars

\* the same member and in-range index were toggled twice in a row
C11_Witness ==
    /\ lastEvent.type = "toggleCell"
    /\ prevEvent.type = "toggleCell"
    /\ lastEvent.memberName = prevEvent.memberName
    /\ lastEvent.index = prevEvent.index
    /\ lastEvent.memberName \in Members
    /\ lastEvent.index \in 0..(GridSize * GridSize - 1)
    /\ UpdatesOf(effects) # {}

\* C12: a submitPrediction whose payload does not have 12 entries stores
\* nothing and emits nothing; a member without a prediction still has none and
\* its hasPredicted flag is false in the view of every viewer.
C12_WrongLengthRejected ==
    [][(/\ lastEvent'.type = "submitPrediction"
        /\ Len(lastEvent'.prediction) # PredictionLength)
       => /\ gameState' = gameState
          /\ inheritedPrediction' = inheritedPrediction
          /\ dataFile' = dataFile
          /\ effects' = <<>>
          /\ \A m \in Members :
                ~Truthy(gameState[m].prediction)
                => /\ ~Truthy(gameState'[m].prediction)
                   /\ \A viewer \in Names \cup {Undefined} :
                         getPublicState(gameState', finalLineup', viewer)[m]
                             .prediction.hasPredicted = FALSE]_vars

\* a payload of 11 or 13 entries was submitted for a member without a
\* prediction
C12_Witness ==
    /\ lastEvent.type = "submitPrediction"
    /\ lastEvent.memberName \in Members
    /\ Len(lastEvent.prediction) # PredictionLength
    /\ ~Truthy(prevGameState[lastEvent.memberName].prediction)
    /\ ~Truthy(gameState[lastEvent.memberName].prediction)

\* ------------------------------------------------- the bingo evaluator alone
\* the twelve lines of the 5x5 grid, written out
Cells == 0..(GridSize * GridSize - 1)
BingoLines ==
    {{5 * r + k : k \in 0..4} : r \in 0..4}
        \cup {{c + 5 * k : k \in 0..4} : c \in 0..4}
        \cup {{0, 6, 12, 18, 24}, {4, 8, 12, 16, 20}}
LinesWithin(S) == {L \in BingoLines : L \subseteq S}

\* selections to start from: the unions of at most two lines and the full
\* grid, whole or with one cell missing
LineUnions ==
    {UNION ls : ls \in {x \in SUBSET BingoLines : Cardinality(x) <= 2}}
        \cup {Cells}
BingoSelections ==
    LineUnions \cup {U \ {x} : U \in LineUnions, x \in Cells}

\* a selection set as the array a client would have built in ascending order
RECURSIVE ascending(_)
ascending(S) ==
    IF S = {}
    THEN <<>>
    ELSE LET x == CHOOSE y \in S : \A z \in S : y <= z
         IN  <<x>> \o ascending(S \ {x})

\* a server restarted on a file in which A has one of these selections, with
\* one socket connected and room for one more event
BingoInit ==
    \E S \in BingoSelections :
        /\ gameState = [m \in Members |->
                           SavedBoardState(IF m = "A" THEN ascending(S) ELSE <<>>,
                                           Null)]
        /\ dataFile = gameState
        /\ lastSaveOk = TRUE
        /\ lineupFile = <<>>
        /\ finalLineup = <<>>
        /\ inheritedPrediction = Null
        /\ connected = {1}
        /\ claimed = [c \in Conns |-> Undefined]
        /\ effects = <<>>
        /\ lastEvent = [type |-> "connection", conn |-> 1]
        /\ prevEvent = [type |-> "startup"]
        /\ prevGameState = gameState
        /\ nEvents = MaxEvents - 1

BingoNext == \E i \in Cells : ToggleCell(1, "A", i, TRUE)

SpecBingo == BingoInit /\ [][BingoNext]_vars

\* C13: calculateBingoCount of a selection is the number of the twelve lines
\* contained in the selection with the free space added; it lies in 0..12, is 0
\* for the empty selection and 1 for exactly one complete line, and it is the
\* bingoCount that updateState carries.
C13_CountsCompletedLines ==
    /\ \A m \in Members :
          LET sel == gameState[m].selectedIndices
              n == calculateBingoCount(sel)
          IN  /\ n = Cardinality(LinesWithin(Range(sel) \cup {12}))
              /\ n \in 0..12
              /\ Range(sel) = {} => n = 0
              /\ Range(sel) \in BingoLines => n = 1
    /\ \A i \in UpdatesOf(effects) :
          effects[i].data.bingoCount =
              Cardinality(LinesWithin(Range(effects[i].data.selectedIndices)
                                         \cup {12}))

\* a toggle completed a line and the selection is exactly that line
C13_Witness ==
    /\ lastEvent.type = "toggleCell"
    /\ Range(gameState["A"].selectedIndices) \in BingoLines
    /\ \E i \in UpdatesOf(effects) : effects[i].data.bingoCount = 1

\* C14: adding index 12 to a selection never changes calculateBingoCount, so a
\* toggleCell on index 12 leaves the member's count as it was and emits no
\* bingoAnnouncement.
C14_FreeSpaceImplicit ==
    [][/\ \A m \in Members : \A gs \in {gameState, gameState'} :
             LET sel == gs[m].selectedIndices
             IN  calculateBingoCount(sel)
                    = calculateBingoCount(Append(sel, FreeSpaceIndex))
       /\ (/\ lastEvent'.type = "toggleCell"
           /\ lastEvent'.index = FreeSpaceIndex
           /\ lastEvent'.memberName \in Members)
          => LET m == lastEvent'.memberName
                 old == calculateBingoCount(gameState[m].selectedIndices)
             IN  /\ calculateBingoCount(gameState'[m].selectedIndices) = old
                 /\ \A i \in UpdatesOf(effects') :
                       effects'[i].data.bingoCount = old
                 /\ \A i \in DOMAIN effects' :
                       effects'[i].kind = "emit"
                       => effects'[i].event # "bingoAnnouncement"]_vars

\* index 12 was toggled on a board whose row through the free space is
\* otherwise complete
C14_Witness ==
    /\ lastEvent.type = "toggleCell"
    /\ lastEvent.index = FreeSpaceIndex
    /\ lastEvent.memberName \in Members
    /\ {10, 11, 13, 14} \subseteq Range(gameState[lastEvent.memberName].selectedIndices)
    /\ calculateBingoCount(gameState[lastEvent.memberName].selectedIndices) >= 1

\* a board of 25 entries with FREE SPACE at index 12 and 24 pairwise distinct
\* terms of the pool around it
GoodBoard(board, pool) ==
    /\ Len(board) = TermsPerBoard + 1
    /\ board[FreeSpaceIndex + 1] = "FREE SPACE"
    /\ \A drawn \in {{board[i] : i \in DOMAIN board \ {FreeSpaceIndex + 1}}} :
          /\ drawn \subseteq Range(pool)
          /\ Cardinality(drawn) = TermsPerBoard

\* pools of 25 and of exactly 24 distinct terms
TermPools == {terms, SubSeq(terms, 1, TermsPerBoard)}

\* C15: every board a startup can generate from a pool of at least 24
\* distinct terms has 25 entries, FREE SPACE at index 12 and 24 pairwise
\* distinct pool terms; every member's board has this shape in every state,
\* and no event handler changes a board.
C15_BoardsWellFormed ==
    /\ [](/\ lastEvent.type = "startup"
                => \A pool \in TermPools : \A picks \in RandomPicks :
                   \A board \in {generateBoardTerms(pool, picks)} :
                      GoodBoard(board, pool)
          /\ \A m \in Members : GoodBoard(gameState[m].board, terms))
    /\ [][lastEvent'.type # "restart"
             => \A m \in Members : gameState'[m].board = gameState[m].board]_vars

\* a handler has run on a state whose boards were drawn with a shuffle that
\* moves terms
C15_Witness ==
    /\ lastEvent.type \in {"toggleCell", "submitPrediction", "submitFinalLineup"}
    /\ gameState["B"].board = generateBoardTerms(terms, PickHalf)
    /\ gameState["B"].board # boardTerms
    /\ gameState["B"].board # generateBoardTerms(terms, PickZero)

\* the views (per-member public state) carried by the emitted messages
ViewsSent ==
    {effects[i].data.gameState :
        i \in {k \in Emits : "gameState" \in DOMAIN effects[k].data}}

\* C16: after the reveal the score shown for a member is the number of
\* positions of its stored prediction whose group occurs somewhere in
\* finalLineup (0 without a prediction), between 0 and 12.
C16_ScoreCountsPositions ==
    Len(finalLineup) > 0 =>
        \A view \in ViewsSent : \A m \in Members :
            LET stored == gameState[m].prediction
                shown == view[m].prediction.score
            IN  /\ shown \in 0..PredictionLength
                /\ ~Truthy(stored) => shown = 0
                /\ Truthy(stored) =>
                      shown = Cardinality(
                                 {i \in 1..Len(stored) :
                                     \E k \in 1..Len(finalLineup) :
                                         finalLineup[k] = stored[i]})

\* the revealed view shows 12 for twelve copies of a group the lineup holds
\* once, 0 for a member without a prediction
C16_Witness ==
    /\ Len(finalLineup) > 0
    /\ \E view \in ViewsSent : \E m, n \in Members :
          /\ gameState[m].prediction = PredRepeated
          /\ view[m].prediction.score = PredictionLength
          /\ ~Truthy(gameState[n].prediction)
          /\ view[n].prediction.score = 0

\* C17 (as claimed): a submitFinalLineup received when finalLineup is already
\* non-empty emits no gameOver and changes nothing, so a run has at most one
\* gameOver.
C17_RevealSingleShot ==
    [][(Len(finalLineup) > 0 /\ lastEvent'.type = "submitFinalLineup")
       => /\ finalLineup' = finalLineup
          /\ lineupFile' = lineupFile
          /\ \A i \in DOMAIN effects' :
                effects'[i].kind = "emit" => effects'[i].event # "gameOver"]_vars

\* C18 (as claimed): a toggleCell or submitPrediction whose memberName is not
\* in the roster changes no state and emits nothing, and the members that have
\* a BoardState are always exactly the roster.
C18_UnknownMemberIsNoOp ==
    /\ [](DOMAIN gameState = Members)
    /\ [][(/\ lastEvent'.type \in {"toggleCell", "submitPrediction"}
           /\ lastEvent'.memberName \notin Members)
          => /\ gameState' = gameState
             /\ dataFile' = dataFile
             /\ effects' = <<>>]_vars

\* C19: join emits exactly one message, an init sent to the joining socket
\* alone; before the reveal it shows the joined name's own prediction in full
\* when it has one and only the hasPredicted flag of everyone else.
C19_JoinAnswersJoinerOnly ==
    lastEvent.type = "join" =>
        /\ Len(effects) = 1
        /\ effects[1].kind = "emit"
        /\ effects[1].event = "init"
        /\ effects[1].to = {lastEvent.conn}
        /\ Len(finalLineup) = 0 =>
              \A m \in Members :
                  LET stored == gameState[m].prediction
                      shown == effects[1].data.gameState[m].prediction
                  IN  IF m = lastEvent.name /\ Truthy(stored)
                      THEN shown = [hasPredicted |-> TRUE, prediction |-> stored]
                      ELSE shown = [hasPredicted |-> Truthy(stored)]

\* with two sockets connected and nothing revealed, one of them joined as A,
\* who has a locked prediction
C19_Witness ==
    /\ lastEvent.type = "join"
    /\ lastEvent.name = "A"
    /\ Len(finalLineup) = 0
    /\ Truthy(gameState["A"].prediction)
    /\ connected = Conns
    /\ Cardinality(connected) >= 2

\* C20: a restart gives every member found in gamestate.json the BoardState
\* saved there, which is its in-memory BoardState whenever the last save
\* succeeded, and gives a member missing from the file a new board with no
\* selection and no prediction.
C20_RestartKeepsSavedState ==
    [][lastEvent'.type = "restart" =>
          /\ lastSaveOk => /\ dataFile = gameState
                           /\ gameState' = gameState
          /\ \A m \in Members :
                IF m \in DOMAIN dataFile
                THEN gameState'[m] = dataFile[m]
                ELSE /\ gameState'[m].selectedIndices = <<>>
                     /\ gameState'[m].prediction = Null
                     /\ GoodBoard(gameState'[m].board, terms)]_vars

\* the server restarted right after B locked a prediction that was saved, and
\* B still has it
C20_Witness ==
    /\ lastEvent.type = "restart"
    /\ prevEvent.type = "submitPrediction"
    /\ prevEvent.memberName = "B"
    /\ Truthy(gameState["B"].prediction)
    /\ gameState["B"].prediction = prevEvent.prediction
    /\ gameState["B"].board = prevGameState["B"].board

\* C21: a restart that follows an accepted submitFinalLineup whose write to
\* final_lineup.txt succeeded loads finalLineup equal to the submitted
\* lineup, so the restarted process is revealed and its view is unmasked.
C21_RevealSurvivesRestart ==
    [][(/\ lastEvent'.type = "restart"
        /\ lastEvent.type = "submitFinalLineup"
        /\ acceptsLineup(lastEvent.lineup)
        /\ effects[1] = Write("final_lineup.txt", TRUE))
       => /\ finalLineup' = lastEvent.lineup
          /\ Len(finalLineup') > 0
          /\ \A m \in Members :
                "score" \in DOMAIN getPublicState(gameState', finalLineup',
                                                  Undefined)[m].prediction]_vars

\* C22: a toggleCell whose index is in the member's selectedIndices removes
\* it, does not raise the bingo count and emits no bingoAnnouncement; the
\* count is monotone: it does not grow when a cell is taken out of a
\* selection, does not shrink when one is added, and on every selection a
\* toggle starts from it is ordered like inclusion against every union of
\* lines.
C22_DeselectNeverAnnounces ==
    /\ [][(/\ lastEvent'.type = "toggleCell"
            /\ lastEvent'.memberName \in Members
            /\ indexOf(gameState[lastEvent'.memberName].selectedIndices,
                       lastEvent'.index) > 0)
           => \A old \in {gameState[lastEvent'.memberName].selectedIndices} :
              \A new \in {gameState'[lastEvent'.memberName].selectedIndices} :
                 /\ Range(new) = Range(old) \ {lastEvent'.index}
                 /\ calculateBingoCount(new) <= calculateBingoCount(old)
                 /\ \A i \in DOMAIN effects' :
                       effects'[i].kind = "emit"
                          => effects'[i].event # "bingoAnnouncement"]_vars
    /\ [](\A m \in Members :
           \A sel \in {gameState[m].selectedIndices} :
           \A S \in {Range(sel)} :
           \A n \in {calculateBingoCount(sel)} :
              /\ \A x \in Cells :
                    /\ calculateBingoCount(SelectSeq(sel, LAMBDA y : y # x)) <= n
                    /\ n <= calculateBingoCount(Append(sel, x))
              /\ lastEvent.type # "toggleCell" =>
                 \A T \in LineUnions :
                    /\ S \subseteq T => n <= calculateBingoCount(ascending(T))
                    /\ T \subseteq S => calculateBingoCount(ascending(T)) <= n)

\* a deselect has taken a cell out of a completed line: the count went down
\* and the handler emitted updateState only
C22_Witness ==
    /\ lastEvent.type = "toggleCell"
    /\ lastEvent.memberName = "A"
    /\ lastEvent.index \in Range(prevGameState["A"].selectedIndices)
    /\ lastEvent.index \notin Range(gameState["A"].selectedIndices)
    /\ calculateBingoCount(gameState["A"].selectedIndices)
          < calculateBingoCount(prevGameState["A"].selectedIndices)
    /\ UpdatesOf(effects) # {}
    /\ EmitsOf("bingoAnnouncement") = {}

\* C23: an accepted toggleCell for m changes nothing of the store but m's
\* selectedIndices; an accepted submitPrediction for m changes nothing but
\* m's prediction; neither changes finalLineup; submitFinalLineup, join,
\* disconnect and a new connection change no BoardState.
C23_FrameConditions ==
    [][/\ lastEvent'.type = "toggleCell"
          => /\ finalLineup' = finalLineup
             /\ \A m \in Members :
                   /\ gameState'[m].board = gameState[m].board
                   /\ gameState'[m].prediction = gameState[m].prediction
                   /\ m # lastEvent'.memberName => gameState'[m] = gameState[m]
       /\ lastEvent'.type = "submitPrediction"
          => /\ finalLineup' = finalLineup
             /\ \A m \in Members :
                   /\ gameState'[m].board = gameState[m].board
                   /\ gameState'[m].selectedIndices = gameState[m].selectedIndices
                   /\ m # lastEvent'.memberName => gameState'[m] = gameState[m]
       /\ lastEvent'.type \in {"submitFinalLineup", "join", "disconnect",
                                "connection"}
          => gameState' = gameState]_vars

\* a toggleCell for B has changed B's selection while A holds a board, a
\* selection and a prediction of its own, and a submitPrediction came before
C23_Witness ==
    /\ lastEvent.type = "toggleCell"
    /\ lastEvent.memberName = "B"
    /\ gameState["B"].selectedIndices # prevGameState["B"].selectedIndices
    /\ gameState["A"].selectedIndices # <<>>
    /\ gameState["A"].selectedIndices # gameState["B"].selectedIndices
    /\ Truthy(gameState["A"].prediction)
    /\ gameState["A"] = prevGameState["A"]
    /\ prevEvent.type = "submitPrediction"
====
